---------------------------- MODULE Spec2Model ----------------------------
(***************************************************************************)
(* Model of visualize_binary_size.py: the report printer main(), and its   *)
(* two helpers format_size and draw_bar.                                   *)
(*                                                                         *)
(* Text is modelled by TLA+ strings, one string character per Python       *)
(* character.  The three non-ASCII characters of the source are written    *)
(* with one-character ASCII stand-ins: "#" for U+2588 (full block), "."    *)
(* for U+2591 (light shade) and "*" for U+2022 (bullet).                   *)
(*                                                                         *)
(* pc holds the source line about to be executed.                          *)
(***************************************************************************)
EXTENDS Integers, Sequences, FiniteSets, TLC

VARIABLES
    pc,          \* source line about to run (0: a helper has returned, 72: process exited)
    out,         \* standard output of the current process: the lines printed so far
    components,  \* main's local 'components' (<<>> while unbound)
    idx,         \* position of the for-loop iterator of line 43
    item,        \* loop targets (name, size, pct, desc) (<<>> while unbound)
    bar,         \* main's local 'bar'
    size_str,    \* main's local 'size_str'
    history,     \* standard output of every process that has exited, oldest first
    args,        \* arguments of a helper called on its own
    ret          \* value returned by a helper called on its own

vars == <<pc, out, components, idx, item, bar, size_str, history, args, ret>>

(***************************************************************************)
(* Bounds of the model.                                                    *)
(***************************************************************************)
MaxRuns == 2
MaxKb == 2048
MaxPct == 120
MaxWidth == 50
MaxDescLen == 52

(***************************************************************************)
(* Python string primitives.                                               *)
(***************************************************************************)
Min(a, b) == IF a <= b THEN a ELSE b

\* c * n : n copies of c, the empty string when n <= 0
RECURSIVE Rep(_, _)
Rep(c, n) ==
    IF n <= 0 THEN ""
    ELSE LET h == Rep(c, n \div 2)
         IN  IF n % 2 = 0 THEN h \o h ELSE h \o h \o c

Digit(d) == <<"0", "1", "2", "3", "4", "5", "6", "7", "8", "9">>[d + 1]

\* str(n) / f"{n}" of an int
RECURSIVE Str(_)
Str(n) ==
    IF n < 0 THEN "-" \o Str(-n)
    ELSE IF n < 10 THEN Digit(n)
    ELSE Str(n \div 10) \o Digit(n % 10)

\* format spec <w (also the default for strings): pad on the right, never cut
Ljust(s, w) == s \o Rep(" ", w - Len(s))

\* format spec >w: pad on the left, never cut
Rjust(s, w) == Rep(" ", w - Len(s)) \o s

\* s[:n] for n >= 0
Slice(s, n) == SubSeq(s, 1, Min(n, Len(s)))

(***************************************************************************)
(* format_size, lines 8-12.  kb/1024 is exact in binary floating point     *)
(* (a division by a power of two), and the format spec .1f renders the     *)
(* decimal with one fractional digit nearest to it, a tie going to the     *)
(* even digit.                                                             *)
(***************************************************************************)
RoundHalfEven(num, den) ==
    LET q == num \div den
        r == num % den
    IN  IF 2 * r > den \/ (2 * r = den /\ q % 2 = 1) THEN q + 1 ELSE q

Fixed1(num, den) ==
    LET t == RoundHalfEven(10 * num, den)
    IN  Str(t \div 10) \o "." \o Digit(t % 10)

\* format_size with the comparison of line 10 written > instead of >=
format_sizeStrict(kb) ==
    IF kb > 1024 THEN Fixed1(kb, 1024) \o "MB" ELSE Str(kb) \o "KB"

format_size(kb) ==
    IF kb >= 1024 THEN Fixed1(kb, 1024) \o "MB" ELSE Str(kb) \o "KB"

(***************************************************************************)
(* IEEE-754 binary64 arithmetic of line 16.  A natural number too large    *)
(* for one machine word is a sequence of limbs of 15 bits, least           *)
(* significant first, with no leading zero limb; a float is [m, e],        *)
(* standing for m * 2^e, where m has at most Mantissa bits.                *)
(***************************************************************************)
Mantissa == 53

Base == 2^15

RECURSIVE Limbs(_)
Limbs(n) == IF n = 0 THEN <<>> ELSE <<n % Base>> \o Limbs(n \div Base)

RECURSIVE ToInt(_)
ToInt(x) == IF x = <<>> THEN 0 ELSE Head(x) + Base * ToInt(Tail(x))

RECURSIVE Trim(_)
Trim(x) ==
    IF x # <<>> /\ x[Len(x)] = 0 THEN Trim(SubSeq(x, 1, Len(x) - 1)) ELSE x

Zeros(k) == [i \in 1..k |-> 0]

\* the number of bits of a word
RECURSIVE Width(_)
Width(n) == IF n = 0 THEN 0 ELSE 1 + Width(n \div 2)

BitLen(x) == IF x = <<>> THEN 0 ELSE 15 * (Len(x) - 1) + Width(x[Len(x)])

\* bit i of x, bit 0 the least significant
BitAt(x, i) ==
    IF i \div 15 + 1 > Len(x) THEN 0 ELSE (x[i \div 15 + 1] \div 2^(i % 15)) % 2

RECURSIVE Inc(_)
Inc(x) ==
    IF x = <<>> THEN <<1>>
    ELSE IF Head(x) + 1 < Base THEN <<Head(x) + 1>> \o Tail(x)
    ELSE <<0>> \o Inc(Tail(x))

\* x * w + carry, for a word w
RECURSIVE MulSmall(_, _, _)
MulSmall(x, w, carry) ==
    IF x = <<>> THEN Limbs(carry)
    ELSE LET t == Head(x) * w + carry
         IN  <<t % Base>> \o MulSmall(Tail(x), w, t \div Base)

\* long division of the limbs k..1 of x by a word d, most significant limb first
RECURSIVE DivFrom(_, _, _, _, _)
DivFrom(x, d, k, rem, q) ==
    IF k = 0 THEN [q |-> Trim(q), r |-> rem]
    ELSE LET t == Base * rem + x[k]
         IN  DivFrom(x, d, k - 1, t % d, <<t \div d>> \o q)

\* x * 2^k
ShiftLeft(x, k) == MulSmall(Zeros(k \div 15) \o x, 2^(k % 15), 0)

\* floor(x / 2^s)
ShiftRight(x, s) ==
    LET high == SubSeq(x, s \div 15 + 1, Len(x))
    IN  DivFrom(high, 2^(s % 15), Len(high), 0, <<>>).q

\* the float nearest to (x + f) * 2^e, 0 < f < 1 iff inexact; ties to even
RoundToDouble(x, inexact, e) ==
    IF BitLen(x) <= Mantissa THEN [m |-> x, e |-> e]
    ELSE LET s == BitLen(x) - Mantissa
             kept == ShiftRight(x, s)
             guard == BitAt(x, s - 1)
             sticky == inexact \/ \E i \in 0..(s - 2) : BitAt(x, i) = 1
             up == guard = 1 /\ (sticky \/ BitAt(kept, 0) = 1)
             m == IF up THEN Inc(kept) ELSE kept
         IN  IF BitLen(m) > Mantissa
             THEN [m |-> ShiftRight(m, 1), e |-> e + s + 1]
             ELSE [m |-> m, e |-> e + s]

\* a / b of two ints, a >= 0 and b > 0: the correctly rounded quotient
TrueDiv(a, b) ==
    IF a = 0 THEN [m |-> <<>>, e |-> 0]
    ELSE LET k == Mantissa + Width(b) + 1
             n == ShiftLeft(Limbs(a), k)
             d == DivFrom(n, b, Len(n), 0, <<>>)
         IN  RoundToDouble(d.q, d.r # 0, -k)

\* f * w of a float and an int w >= 0: the correctly rounded product
FloatMulInt(f, w) ==
    IF w = 0 \/ f.m = <<>> THEN [m |-> <<>>, e |-> 0]
    ELSE RoundToDouble(MulSmall(f.m, w, 0), FALSE, f.e)

\* int(f) of a float f >= 0: truncation
Trunc(f) ==
    IF f.m = <<>> THEN 0
    ELSE IF f.e >= 0 THEN ToInt(ShiftLeft(f.m, f.e))
    ELSE ToInt(ShiftRight(f.m, -f.e))

(***************************************************************************)
(* draw_bar, lines 14-17.                                                  *)
(***************************************************************************)
Filled == "#"
Empty == "."

draw_bar(percentage, width) ==
    LET filled == Trunc(FloatMulInt(TrueDiv(percentage, 100), width))
    IN  Rep(Filled, filled) \o Rep(Empty, width - filled)

(***************************************************************************)
(* main, lines 19-68.                                                      *)
(***************************************************************************)
\* the component list with one percentage off by one (Audio System: 3)
ComponentsDrift ==
    <<  <<"Nimini Runtime", 450, 37, "Parser, VM, AST, backends, stdlib">>,
        <<"Feature Bindings", 200, 17, "API exposure to scripts (*_bindings.nim)">>,
        <<"Standard Library", 150, 12, "Nim stdlib (strings, tables, algorithms)">>,
        <<"Core Rendering", 120, 10, "Layout, layers, terminal handling">>,
        <<"FIGlet System", 80, 7, "Font rendering + embedded data">>,
        <<"Particle System", 60, 5, "Particle engine + graphs">>,
        <<"HTTP Client", 44, 4, "Gist loading (optional)">>,
        <<"Dungeon Gen", 40, 3, "Procedural generation">>,
        <<"Audio System", 30, 3, "Plugin loader">>,
        <<"ASCII Art", 30, 2, "Art generators">>,
        <<"Other", 16, 1, "Miscellaneous">>  >>

Components ==
    <<  <<"Nimini Runtime", 450, 37, "Parser, VM, AST, backends, stdlib">>,
        <<"Feature Bindings", 200, 17, "API exposure to scripts (*_bindings.nim)">>,
        <<"Standard Library", 150, 12, "Nim stdlib (strings, tables, algorithms)">>,
        <<"Core Rendering", 120, 10, "Layout, layers, terminal handling">>,
        <<"FIGlet System", 80, 7, "Font rendering + embedded data">>,
        <<"Particle System", 60, 5, "Particle engine + graphs">>,
        <<"HTTP Client", 44, 4, "Gist loading (optional)">>,
        <<"Dungeon Gen", 40, 3, "Procedural generation">>,
        <<"Audio System", 30, 2, "Plugin loader">>,
        <<"ASCII Art", 30, 2, "Art generators">>,
        <<"Other", 16, 1, "Miscellaneous">>  >>

BarWidth == 40
DescMax == 50

\* the lines that print a literal, and what each prints
LiteralLines == (20..23) \cup {41} \cup (48..68)

Literal(l) ==
    CASE l \in {20, 22, 49, 51} -> Rep("=", 80)
      [] l = 21 -> "TStorie Binary Size Breakdown (1.2 MB total)"
      [] l = 41 -> Rep("-", 135)
      [] l = 50 -> "Key Insights:"
      [] l = 53 -> "  * Nimini scripting (37%) + Feature bindings (17%) = 54% of binary"
      [] l = 54 -> "    This provides the flexibility that makes tstorie scriptable"
      [] l = 56 -> "  * Core rendering engine is only ~120 KB (10%)"
      [] l = 57 -> "    The 180 KB WASM build proves the core is compact"
      [] l = 59 -> "  * Only 44 KB (4%) can be removed with -d:noGistLoading"
      [] l = 60 -> "    Most modules are interdependent and cannot be easily removed"
      [] l = 62 -> "Optimization Strategy:"
      [] l = 64 -> "  1. Make feature bindings conditional (~200 KB potential savings)"
      [] l = 65 -> "  2. Make embedded fonts optional (~50 KB savings)"
      [] l = 66 -> "  3. Consider plugin system for heavy features"
      [] l = 67 -> "  4. Create minimal/standard/full build variants"
      [] OTHER -> ""

\* Succ with line 67 left out
SuccShort(l) ==
    CASE l = 23 -> 26
      [] l = 26 -> 40
      [] l = 41 -> 43
      [] l = 46 -> 43
      [] l = 66 -> 68
      [] l = 68 -> 69
      [] OTHER -> l + 1

\* the statement that follows statement l (line 43 chooses for itself)
Succ(l) ==
    CASE l = 23 -> 26
      [] l = 26 -> 40
      [] l = 41 -> 43
      [] l = 46 -> 43
      [] l = 68 -> 69
      [] OTHER -> l + 1

\* HeaderRow with the third label spelled out
HeaderRowWide ==
    Ljust("Component", 20) \o " " \o Rjust("Size", 10) \o " " \o Rjust("Percentage", 5)
        \o "  " \o Ljust("Bar", 50) \o "  " \o Ljust("Description", 30)

\* line 40
HeaderRow ==
    Ljust("Component", 20) \o " " \o Rjust("Size", 10) \o " " \o Rjust("%", 5)
        \o "  " \o Ljust("Bar", 50) \o "  " \o Ljust("Description", 30)

\* FormatRow keeping the last DescMax characters of the description, not the first
FormatRowTail(name, sz, pct, b, desc) ==
    Ljust(name, 20) \o " " \o Rjust(sz, 10) \o " " \o Rjust(Str(pct), 4) \o "%"
        \o "  " \o b \o "  " \o SubSeq(desc, Len(desc) - Min(DescMax, Len(desc)) + 1, Len(desc))

\* line 46
FormatRow(name, sz, pct, b, desc) ==
    Ljust(name, 20) \o " " \o Rjust(sz, 10) \o " " \o Rjust(Str(pct), 4) \o "%"
        \o "  " \o b \o "  " \o Slice(desc, DescMax)

Init ==
    /\ pc = 71
    /\ out = <<>>
    /\ components = <<>>
    /\ idx = 0
    /\ item = <<>>
    /\ bar = ""
    /\ size_str = ""
    /\ history = <<>>
    /\ args = <<>>
    /\ ret = ""

\* line 71: the script calls main()
Invoke ==
    /\ pc = 71
    /\ pc' = 20
    /\ UNCHANGED <<out, components, idx, item, bar, size_str, history, args, ret>>

\* a print of a literal
PrintLiteral ==
    /\ pc \in LiteralLines
    /\ out' = Append(out, Literal(pc))
    /\ pc' = Succ(pc)
    /\ UNCHANGED <<components, idx, item, bar, size_str, history, args, ret>>

\* AssignComponents on a list that an earlier run has consumed from
AssignComponentsStale ==
    /\ pc = 26
    /\ components' = IF history = <<>> THEN Components ELSE Tail(Components)
    /\ pc' = Succ(pc)
    /\ UNCHANGED <<out, idx, item, bar, size_str, history, args, ret>>

\* lines 26-38
AssignComponents ==
    /\ pc = 26
    /\ components' = Components
    /\ pc' = Succ(pc)
    /\ UNCHANGED <<out, idx, item, bar, size_str, history, args, ret>>

\* line 40
PrintHeader ==
    /\ pc = 40
    /\ out' = Append(out, HeaderRow)
    /\ pc' = Succ(pc)
    /\ UNCHANGED <<components, idx, item, bar, size_str, history, args, ret>>

\* ForNext with the iterator advanced twice
ForNextSkip ==
    /\ pc = 43
    /\ \/ /\ idx < Len(components)
          /\ item' = components[idx + 1]
          /\ idx' = idx + 2
          /\ pc' = 44
       \/ /\ idx >= Len(components)
          /\ pc' = 48
          /\ UNCHANGED <<item, idx>>
    /\ UNCHANGED <<out, components, bar, size_str, history, args, ret>>

\* line 43: bind the next entry, or leave the loop when the list is exhausted
ForNext ==
    /\ pc = 43
    /\ \/ /\ idx < Len(components)
          /\ item' = components[idx + 1]
          /\ idx' = idx + 1
          /\ pc' = 44
       \/ /\ idx >= Len(components)
          /\ pc' = 48
          /\ UNCHANGED <<item, idx>>
    /\ UNCHANGED <<out, components, bar, size_str, history, args, ret>>

\* line 44
CallDrawBar ==
    /\ pc = 44
    /\ bar' = draw_bar(item[3], BarWidth)
    /\ pc' = Succ(pc)
    /\ UNCHANGED <<out, components, idx, item, size_str, history, args, ret>>

\* line 45
CallFormatSize ==
    /\ pc = 45
    /\ size_str' = format_size(item[2])
    /\ pc' = Succ(pc)
    /\ UNCHANGED <<out, components, idx, item, bar, history, args, ret>>

\* line 46
PrintRow ==
    /\ pc = 46
    /\ out' = Append(out, FormatRow(item[1], size_str, item[3], bar, item[4]))
    /\ pc' = Succ(pc)
    /\ UNCHANGED <<components, idx, item, bar, size_str, history, args, ret>>

\* main returns and the process exits; what it wrote is on record
Return ==
    /\ pc = 69
    /\ history' = Append(history, out)
    /\ pc' = 72
    /\ UNCHANGED <<out, components, idx, item, bar, size_str, args, ret>>

\* the script is run again: a new process, with nothing kept from the last
Rerun ==
    /\ pc = 72
    /\ Len(history) < MaxRuns
    /\ pc' = 71
    /\ out' = <<>>
    /\ components' = <<>>
    /\ idx' = 0
    /\ item' = <<>>
    /\ bar' = ""
    /\ size_str' = ""
    /\ UNCHANGED <<history, args, ret>>

Next ==
    \/ Invoke
    \/ PrintLiteral
    \/ AssignComponents
    \/ PrintHeader
    \/ ForNext
    \/ CallDrawBar
    \/ CallFormatSize
    \/ PrintRow
    \/ Return
    \/ Rerun

Spec == Init /\ [][Next]_vars

(***************************************************************************)
(* format_size called on its own, on every size of 0..MaxKb.               *)
(***************************************************************************)
InitFormatSize ==
    /\ pc = 8
    /\ args \in {<<kb>> : kb \in 0..MaxKb}
    /\ ret = ""
    /\ out = <<>>
    /\ components = <<>>
    /\ idx = 0
    /\ item = <<>>
    /\ bar = ""
    /\ size_str = ""
    /\ history = <<>>

ApplyFormatSize ==
    /\ pc = 8
    /\ ret' = format_size(args[1])
    /\ pc' = 0
    /\ UNCHANGED <<out, components, idx, item, bar, size_str, history, args>>

NextFormatSize == ApplyFormatSize

SpecFormatSize == InitFormatSize /\ [][NextFormatSize]_vars

(***************************************************************************)
(* draw_bar called on its own, on every percentage of 0..MaxPct and every  *)
(* width of 0..MaxWidth.                                                   *)
(***************************************************************************)
InitDrawBar ==
    /\ pc = 14
    /\ args \in {<<p, w>> : p \in 0..MaxPct, w \in 0..MaxWidth}
    /\ ret = ""
    /\ out = <<>>
    /\ components = <<>>
    /\ idx = 0
    /\ item = <<>>
    /\ bar = ""
    /\ size_str = ""
    /\ history = <<>>

ApplyDrawBar ==
    /\ pc = 14
    /\ ret' = draw_bar(args[1], args[2])
    /\ pc' = 0
    /\ UNCHANGED <<out, components, idx, item, bar, size_str, history, args>>

NextDrawBar == ApplyDrawBar

SpecDrawBar == InitDrawBar /\ [][NextDrawBar]_vars

(***************************************************************************)
(* The loop body, lines 44-46, run on its own on one entry: an entry of    *)
(* the component list whose description is either its own or a text of     *)
(* 0..MaxDescLen characters.                                               *)
(***************************************************************************)
SampleText == "ABCDEFGHIJKLMNOPQRSTUVWXYZabcdefghijklmnopqrstuvwxyz0123456789"

RowInputs ==
    {<<Components[i][1], Components[i][2], Components[i][3], d>> :
        i \in 1..Len(Components),
        d \in {Slice(SampleText, k) : k \in 0..MaxDescLen}
                \cup {Components[j][4] : j \in 1..Len(Components)}}

InitRow ==
    /\ pc = 44
    /\ item \in RowInputs
    /\ components = <<item>>
    /\ idx = 1
    /\ out = <<>>
    /\ bar = ""
    /\ size_str = ""
    /\ history = <<>>
    /\ args = <<>>
    /\ ret = ""

NextRow ==
    \/ CallDrawBar
    \/ CallFormatSize
    \/ PrintRow

SpecRow == InitRow /\ [][NextRow]_vars

(***************************************************************************)
(* Reading printed text back: what the properties below are stated with.   *)
(***************************************************************************)
Char(s, k) == SubSeq(s, k, k)

AllChars(s, c) == \A k \in 1..Len(s) : Char(s, k) = c

StartsWith(s, p) == Len(s) >= Len(p) /\ SubSeq(s, 1, Len(p)) = p

Inked(s) == {k \in 1..Len(s) : Char(s, k) # " "}

Least(S) == CHOOSE k \in S : \A j \in S : k <= j

Greatest(S) == CHOOSE k \in S : \A j \in S : k >= j

\* s without its leading and trailing spaces
Strip(s) == IF Inked(s) = {} THEN "" ELSE SubSeq(s, Least(Inked(s)), Greatest(Inked(s)))

\* the words of s, in order: its maximal runs of characters other than a space
Words(s) ==
    LET starts == {k \in Inked(s) : k = 1 \/ Char(s, k - 1) = " "}
        ends == {k \in Inked(s) : k = Len(s) \/ Char(s, k + 1) = " "}
        nth(i) == CHOOSE k \in starts : Cardinality({j \in starts : j < k}) = i - 1
    IN  [i \in 1..Cardinality(starts) |->
            SubSeq(s, nth(i), Least({k \in ends : k >= nth(i)}))]

\* the position of the first occurrence of sub in s, 0 when there is none
IndexOf(s, sub) ==
    LET at == {k \in 1..(Len(s) - Len(sub) + 1) : SubSeq(s, k, k + Len(sub) - 1) = sub}
    IN  IF at = {} THEN 0 ELSE Least(at)

Digits == {Digit(d) : d \in 0..9}

IsDigits(s) == Len(s) > 0 /\ \A k \in 1..Len(s) : Char(s, k) \in Digits

DigitVal(c) == CHOOSE d \in 0..9 : Digit(d) = c

RECURSIVE ParseNat(_)
ParseNat(s) ==
    IF Len(s) = 0 THEN 0
    ELSE 10 * ParseNat(SubSeq(s, 1, Len(s) - 1)) + DigitVal(Char(s, Len(s)))

\* a decimal numeral with no sign and no superfluous leading zero
IsNumeral(s) == IsDigits(s) /\ (Len(s) > 1 => Char(s, 1) # "0")

IsBar(s) == \A k \in 1..Len(s) : Char(s, k) \in {Filled, Empty}

\* what a printed line is, told from its text alone
Kind(l) ==
    IF l = "" THEN "blank"
    ELSE IF Len(l) = 80 /\ AllChars(l, "=") THEN "separator"
    ELSE IF Len(l) = 135 /\ AllChars(l, "-") THEN "rule"
    ELSE IF StartsWith(l, "TStorie Binary Size Breakdown") THEN "title"
    ELSE IF StartsWith(l, "Component ") THEN "header"
    ELSE IF l = "Key Insights:" THEN "insights"
    ELSE IF l = "Optimization Strategy:" THEN "strategy"
    ELSE IF Len(l) > 5 /\ SubSeq(l, 1, 2) = "  " /\ Char(l, 3) \in Digits
                /\ SubSeq(l, 4, 5) = ". " THEN "numbered"
    ELSE IF Len(l) >= 81 /\ Char(l, 37) = "%" /\ IsBar(SubSeq(l, 40, 79)) THEN "row"
    ELSE "text"

IsRow(l) == Kind(l) = "row"

Rows == SelectSeq(out, IsRow)

\* main has started and has run every statement before line l
Past(l) == pc \in (l + 1)..69 \/ pc = 72

(***************************************************************************)
(* C1.  One run of main emits its lines in one fixed order, no section     *)
(* repeated or interleaved: the title banner (separator of 80, title,      *)
(* separator, blank), the header row and the dashed rule, one data row per *)
(* entry, a blank line and the Key Insights banner (separator, title,      *)
(* separator, blank) with its fixed text, and last the Optimization        *)
(* Strategy section with exactly 4 recommendation lines, numbered 1 to 4;  *)
(* main then returns.  At every moment what has been printed is a prefix   *)
(* of that layout, and at the return it is the whole of it.                *)
(***************************************************************************)
Layout ==
    <<"separator", "title", "separator", "blank", "header", "rule">>
        \o [i \in 1..Len(Components) |-> "row"]
        \o <<"blank", "separator", "insights", "separator", "blank",
             "text", "text", "blank", "text", "text", "blank", "text", "text", "blank",
             "strategy", "blank", "numbered", "numbered", "numbered", "numbered", "blank">>

Numbered == {k \in 1..Len(out) : Kind(out[k]) = "numbered"}

OutputOrder ==
    /\ Len(out) <= Len(Layout)
    /\ \A k \in 1..Len(out) : Kind(out[k]) = Layout[k]
    /\ \A k \in Numbered :
            Char(out[k], 3) = Digit(Cardinality({j \in Numbered : j <= k}))
    /\ pc \in {69, 72} => Len(out) = Len(Layout) /\ Cardinality(Numbered) = 4

OutputOrderWitness ==
    pc = 72 /\ Len(out) = Len(Layout) /\ Kind(out[Len(out) - 1]) = "numbered"

(***************************************************************************)
(* C2.  For every size kb >= 0: below 1024, format_size(kb) is the decimal *)
(* numeral of kb followed by KB; from 1024 on (1024 included) it is a      *)
(* numeral, a point and exactly one fractional digit, the tenth nearest to *)
(* kb/1024, followed by MB.  In particular 0 gives 0KB, 450 gives 450KB,   *)
(* 1024 gives 1.0MB and 1536 gives 1.5MB.                                  *)
(***************************************************************************)
Abs(x) == IF x < 0 THEN -x ELSE x

FormatSizeContract ==
    pc = 0 =>
        LET kb == args[1]
            n == Len(ret)
            body == SubSeq(ret, 1, n - 2)
            unit == SubSeq(ret, n - 1, n)
            whole == SubSeq(body, 1, Len(body) - 2)
            frac == Char(body, Len(body))
        IN  /\ kb < 1024 => unit = "KB" /\ IsNumeral(body) /\ ParseNat(body) = kb
            /\ kb >= 1024 =>
                    /\ unit = "MB"
                    /\ Len(body) >= 3
                    /\ Char(body, Len(body) - 1) = "."
                    /\ IsNumeral(whole)
                    /\ IsDigits(frac)
                    /\ Abs(1024 * (10 * ParseNat(whole) + ParseNat(frac)) - 10 * kb) <= 512
            /\ kb = 0 => ret = "0KB"
            /\ kb = 450 => ret = "450KB"
            /\ kb = 1024 => ret = "1.0MB"
            /\ kb = 1536 => ret = "1.5MB"

FormatSizeWitness == pc = 0 /\ args = <<1024>> /\ ret = "1.0MB"

(***************************************************************************)
(* C3.  For every percentage of 0..100 and every width >= 0,               *)
(* draw_bar(percentage, width) has exactly width characters, the first     *)
(* floor(percentage * width / 100) of them the filled glyph and all the    *)
(* others the empty glyph.                                                 *)
(***************************************************************************)
BarContract ==
    pc = 0 /\ args[1] \in 0..100 =>
        LET width == args[2]
            filled == (args[1] * width) \div 100
        IN  /\ Len(ret) = width
            /\ \A k \in 1..Len(ret) :
                    Char(ret, k) = IF k <= filled THEN Filled ELSE Empty

(***************************************************************************)
(* C4.  main prints exactly one data row per entry of the component list,  *)
(* in the list's order, none skipped or duplicated: 11 rows, the first for *)
(* Nimini Runtime with size 450KB and percentage 37%, the last for Other;  *)
(* row i shows the name, format_size(size), the percentage followed by %   *)
(* and draw_bar(percentage, 40) of entry i.                                *)
(***************************************************************************)
RowName(l) == Strip(SubSeq(l, 1, 20))
RowSize(l) == Strip(SubSeq(l, 22, 31))
RowPct(l) == Strip(SubSeq(l, 33, 37))
RowBar(l) == SubSeq(l, 40, 79)

RowsMatchEntries ==
    /\ Len(Rows) <= Len(Components)
    /\ Len(Rows) = IF pc \in 44..46 THEN idx - 1 ELSE idx
    /\ Past(47) => Len(Rows) = 11
    /\ \A i \in 1..Len(Rows) :
            /\ RowName(Rows[i]) = Components[i][1]
            /\ RowSize(Rows[i]) = format_size(Components[i][2])
            /\ RowPct(Rows[i]) = Str(Components[i][3]) \o "%"
            /\ RowBar(Rows[i]) = draw_bar(Components[i][3], 40)
    /\ Len(Rows) >= 1 =>
            /\ RowName(Rows[1]) = "Nimini Runtime"
            /\ RowSize(Rows[1]) = "450KB"
            /\ RowPct(Rows[1]) = "37%"
    /\ Len(Rows) >= 11 => RowName(Rows[11]) = "Other"

RowsMatchEntriesWitness == pc = 72 /\ Len(Rows) = 11 /\ RowName(Rows[11]) = "Other"

(***************************************************************************)
(* C5.  In a printed data row the description shown is the first 50        *)
(* characters of the entry's description when that has more than 50, and   *)
(* the description itself, neither padded nor cut, when it has 50 or       *)
(* fewer.                                                                  *)
(***************************************************************************)
RowDesc(l) == SubSeq(l, 82, Len(l))

DescriptionShown ==
    pc = 43 /\ out # <<>> =>
        LET shown == RowDesc(out[Len(out)])
            desc == item[4]
        IN  IF Len(desc) > 50
            THEN Len(shown) = 50 /\ shown = SubSeq(desc, 1, 50)
            ELSE shown = desc

DescriptionShownWitness ==
    pc = 43 /\ out # <<>> /\ Len(item[4]) > 50 /\ Len(RowDesc(out[Len(out)])) = 50

(***************************************************************************)
(* C6.  As claimed: the header row carries the five labels Component,      *)
(* Size, Percentage, Bar and Description, in that order, and the dashed    *)
(* rule follows it immediately.                                            *)
(***************************************************************************)
HeaderIs(labels) ==
    /\ Past(40) => \E k \in 1..Len(out) : Kind(out[k]) = "header"
    /\ \A k \in 1..Len(out) :
            Kind(out[k]) = "header" =>
                /\ Words(out[k]) = labels
                /\ IF k = Len(out) THEN pc = 41 ELSE Kind(out[k + 1]) = "rule"

HeaderLabelsAsClaimed ==
    HeaderIs(<<"Component", "Size", "Percentage", "Bar", "Description">>)

(***************************************************************************)
(* C6, amended.  The header row carries the five labels Component, Size,   *)
(* %, Bar and Description, in that order, and the dashed rule follows it   *)
(* immediately.                                                            *)
(***************************************************************************)
HeaderLabels ==
    HeaderIs(<<"Component", "Size", "%", "Bar", "Description">>)

HeaderLabelsWitness ==
    pc = 43 /\ Len(out) = 6 /\ Kind(out[5]) = "header" /\ Kind(out[6]) = "rule"

(***************************************************************************)
(* C7.  Running the report again gives the same output, line for line and  *)
(* character for character: every process that has exited wrote what the   *)
(* first one wrote, and from its binding to the end of each run the        *)
(* component list is the one the source spells out.                        *)
(***************************************************************************)
RunsIdentical ==
    /\ \A i \in 1..Len(history) : history[i] = history[1]
    /\ Past(26) => components = Components
    /\ pc = 72 => history[Len(history)] = out

RunsIdenticalWitness ==
    pc = 72 /\ Len(history) >= 2 /\ Len(history[2]) = Len(Layout)

(***************************************************************************)
(* C8.  As claimed: every entry of the component list has a percentage in  *)
(* 0..100, and the percentages do not sum to 100.                          *)
(***************************************************************************)
RECURSIVE SumPct(_)
SumPct(c) == IF c = <<>> THEN 0 ELSE Head(c)[3] + SumPct(Tail(c))

PctInRange == \A i \in 1..Len(components) : components[i][3] \in 0..100

PercentagesDoNotSumTo100 ==
    Past(26) => PctInRange /\ SumPct(components) # 100

(***************************************************************************)
(* C8, amended.  Every entry of the component list has a percentage in     *)
(* 0..100, and the percentages sum to exactly 100.                         *)
(***************************************************************************)
PercentagesSumTo100 ==
    Past(26) => Len(components) = 11 /\ PctInRange /\ SumPct(components) = 100

PercentagesWitness == pc = 72 /\ Len(components) = 11 /\ SumPct(components) = 100

(***************************************************************************)
(* C9.  draw_bar does not clamp: for every percentage above 100 and        *)
(* positive width with floor(percentage * width / 100) > width, the        *)
(* result is floor(percentage * width / 100) filled glyphs and no empty    *)
(* glyph, so longer than width; and no entry of the component list has a   *)
(* percentage above 100, so no printed bar exceeds 40 characters.          *)
(***************************************************************************)
NoClampContract ==
    /\ pc = 0 /\ args[1] > 100 /\ args[2] > 0 /\ (args[1] * args[2]) \div 100 > args[2] =>
            /\ ret = Rep(Filled, (args[1] * args[2]) \div 100)
            /\ Len(ret) > args[2]
    /\ \A i \in 1..Len(Components) :
            /\ Components[i][3] <= 100
            /\ Len(draw_bar(Components[i][3], BarWidth)) = 40

(***************************************************************************)
(* C10.  For every entry the name has at most 20 characters, the formatted *)
(* size at most 10, the percentage at most 4 digits and the bar exactly    *)
(* 40; so in every data row the bar starts at one offset and the           *)
(* description at one offset, that description offset is the offset of the *)
(* Description label in the header row, and no header or data row is       *)
(* longer than the dashed rule of 135 characters.                          *)
(***************************************************************************)
BarStart(l) == Least({k \in 1..Len(l) : Char(l, k) \in {Filled, Empty}})

DescStart(i) == Len(Rows[i]) - Len(Slice(Components[i][4], DescMax)) + 1

LayoutAligned ==
    /\ \A i \in 1..Len(components) :
            /\ Len(components[i][1]) <= 20
            /\ Len(format_size(components[i][2])) <= 10
            /\ Len(Str(components[i][3])) <= 4
            /\ Len(draw_bar(components[i][3], BarWidth)) = 40
    /\ \A k \in 1..Len(out) :
            Kind(out[k]) \in {"header", "row"} => Len(out[k]) <= 135
    /\ \A i \in 1..Len(Rows) :
            /\ BarStart(Rows[i]) = BarStart(Rows[1])
            /\ DescStart(i) = DescStart(1)
            /\ \A k \in 1..Len(out) :
                    Kind(out[k]) = "header" =>
                        DescStart(i) = IndexOf(out[k], "Description")

=============================================================================
